---------------------------- MODULE Spec2Model ----------------------------
(***************************************************************************)
(* CodeGenBase (src/src/codegen/base.h): the code-region buffer, the       *)
(* region scope guard, the process-wide kernel id allocator, artifact      *)
(* naming, source assembly and the dynamic loader.                         *)
(*                                                                         *)
(* Strings are sequences of one-character strings, so that formatting,     *)
(* concatenation, getline and find are computed and not assumed.           *)
(***************************************************************************)
EXTENDS Integers, Sequences, FiniteSets, TLC

(***************************************************************************)
(* Bounds of the model.                                                    *)
(***************************************************************************)
\* number of emit calls made on the instance
MaxEmits == 2
\* nesting depth of live region scope guards
MaxDepth == 3
\* number of load_function calls made on the instance
MaxLoads == 2
\* number of disassemble calls made on the instance
MaxDisasm == 1
\* number of kernel generator instances alive at once (one constructing
\* thread per instance in the concurrent specification)
NInstances == 3

(***************************************************************************)
(* enum class CodeRegion : int                                             *)
(***************************************************************************)
header == 0
exterior_shared_variable_begin == 1
exterior_loop_begin == 2
interior_shared_variable_begin == 3
interior_loop_begin == 4
body == 5
interior_loop_end == 6
residual_begin == 7
residual_body == 8
residual_end == 9
interior_shared_variable_end == 10
exterior_loop_end == 11
exterior_shared_variable_end == 12
tail == 13

CodeRegion ==
  { header, exterior_shared_variable_begin, exterior_loop_begin,
    interior_shared_variable_begin, interior_loop_begin, body,
    interior_loop_end, residual_begin, residual_body, residual_end,
    interior_shared_variable_end, exterior_loop_end,
    exterior_shared_variable_end, tail }

\* get_region_name: the REGISTER_TYPE table, #i is the enumerator's spelling
get_region_name(r) ==
  CASE r = header -> <<"h", "e", "a", "d", "e", "r">>
    [] r = exterior_shared_variable_begin ->
         <<"e", "x", "t", "e", "r", "i", "o", "r", "_", "s", "h", "a", "r", "e", "d", "_",
           "v", "a", "r", "i", "a", "b", "l", "e", "_", "b", "e", "g", "i", "n">>
    [] r = exterior_loop_begin ->
         <<"e", "x", "t", "e", "r", "i", "o", "r", "_", "l", "o", "o", "p", "_",
           "b", "e", "g", "i", "n">>
    [] r = interior_shared_variable_begin ->
         <<"i", "n", "t", "e", "r", "i", "o", "r", "_", "s", "h", "a", "r", "e", "d", "_",
           "v", "a", "r", "i", "a", "b", "l", "e", "_", "b", "e", "g", "i", "n">>
    [] r = interior_loop_begin ->
         <<"i", "n", "t", "e", "r", "i", "o", "r", "_", "l", "o", "o", "p", "_",
           "b", "e", "g", "i", "n">>
    [] r = body -> <<"b", "o", "d", "y">>
    [] r = interior_loop_end ->
         <<"i", "n", "t", "e", "r", "i", "o", "r", "_", "l", "o", "o", "p", "_", "e", "n", "d">>
    [] r = residual_begin ->
         <<"r", "e", "s", "i", "d", "u", "a", "l", "_", "b", "e", "g", "i", "n">>
    [] r = residual_body ->
         <<"r", "e", "s", "i", "d", "u", "a", "l", "_", "b", "o", "d", "y">>
    [] r = residual_end ->
         <<"r", "e", "s", "i", "d", "u", "a", "l", "_", "e", "n", "d">>
    [] r = interior_shared_variable_end ->
         <<"i", "n", "t", "e", "r", "i", "o", "r", "_", "s", "h", "a", "r", "e", "d", "_",
           "v", "a", "r", "i", "a", "b", "l", "e", "_", "e", "n", "d">>
    [] r = exterior_loop_end ->
         <<"e", "x", "t", "e", "r", "i", "o", "r", "_", "l", "o", "o", "p", "_", "e", "n", "d">>
    [] r = exterior_shared_variable_end ->
         <<"e", "x", "t", "e", "r", "i", "o", "r", "_", "s", "h", "a", "r", "e", "d", "_",
           "v", "a", "r", "i", "a", "b", "l", "e", "_", "e", "n", "d">>
    [] r = tail -> <<"t", "a", "i", "l">>

(***************************************************************************)
(* String helpers: std::string::find, std::getline, fmt::format            *)
(***************************************************************************)
\* the needle occurs in s starting at position i
MatchAt(s, needle, i) ==
  /\ i + Len(needle) - 1 <= Len(s)
  /\ \A j \in 1..Len(needle) : s[i + j - 1] = needle[j]

\* a test for the needle at the start of s only
StartsWith(s, needle) == MatchAt(s, needle, 1)

\* s.find(needle) != s.npos
Contains(s, needle) == \E i \in 1..(Len(s) + 1) : MatchAt(s, needle, i)

\* std::getline on a freshly opened stream: the characters before the first
\* '\n', or the whole content when there is none
getline(content) ==
  IF \E i \in 1..Len(content) : content[i] = "\n"
    THEN LET nl == CHOOSE i \in 1..Len(content) :
                     /\ content[i] = "\n"
                     /\ \A j \in 1..(i - 1) : content[j] # "\n"
         IN SubSeq(content, 1, nl - 1)
    ELSE content

\* the decimal digits of n, most significant first
RECURSIVE Decimal(_)
Decimal(n) ==
  LET d == <<"0", "1", "2", "3", "4", "5", "6", "7", "8", "9">>[(n % 10) + 1]
  IN IF n < 10 THEN <<d>> ELSE Append(Decimal(n \div 10), d)

\* fmt "{:0Wd}": pad with zeros on the left up to width w, never truncate
RECURSIVE ZeroPad(_, _)
ZeroPad(digits, w) ==
  IF Len(digits) >= w THEN digits ELSE ZeroPad(<<"0">> \o digits, w)

\* fmt::format(f, args...) for "{}" replacement fields
RECURSIVE fmt_format(_, _)
fmt_format(f, args) ==
  IF f = <<>> THEN <<>>
  ELSE IF Len(f) >= 2 /\ f[1] = "{" /\ f[2] = "}" /\ args # <<>>
    THEN Head(args) \o fmt_format(SubSeq(f, 3, Len(f)), Tail(args))
    ELSE <<Head(f)>> \o fmt_format(Tail(f), args)

(***************************************************************************)
(* Program constants                                                       *)
(***************************************************************************)
\* TC_ASSERT(id < 10000) in get_kernel_id
KernelIdLimit == 10000
\* dll = nullptr; a failed dlopen or dlsym also yields the null pointer
nullptr == 0
\* folder = "_tlang_cache/"
folder == <<"_", "t", "l", "a", "n", "g", "_", "c", "a", "c", "h", "e", "/">>
\* line_suffix = "\n"
line_suffix == <<"\n">>
\* std::endl writes '\n'
endl == <<"\n">>
\* the token write_source looks for in the first line of an existing file
DebugMarker == <<"d", "e", "b", "u", "g">>
\* the build's platform macro: TC_PLATFORM_OSX, TC_PLATFORM_LINUX or neither
Platforms == {"osx", "linux", "other"}
\* the language suffixes the derived generators set (suffix member)
Suffixes == {<<"c", "p", "p">>, <<"c", "u">>}

Instances == 1..NInstances

(***************************************************************************)
(* Artifact naming                                                         *)
(***************************************************************************)
\* a function name that keeps the last three digits of the id only
format_func_name_short(i) == <<"f", "u", "n", "c">> \o ZeroPad(Decimal(i % 1000), 6)

\* func_name = fmt::format("func{:06d}", id)
format_func_name(i) == <<"f", "u", "n", "c">> \o ZeroPad(Decimal(i), 6)

\* get_source_name: fmt::format("tmp{:04d}.{}", id, suffix)
get_source_name(i, sfx) ==
  <<"t", "m", "p">> \o ZeroPad(Decimal(i), 4) \o <<".">> \o sfx

\* one format for every platform: folder, source file name, extension
get_library_fn_uniform(platform, dir, i, sfx) ==
  dir \o <<"/">> \o get_source_name(i, sfx)
      \o (IF platform = "osx" THEN <<".", "d", "y", "l", "i", "b">>
                              ELSE <<".", "s", "o">>)

\* get_library_fn: the two preprocessor branches
get_library_fn(platform, dir, i, sfx) ==
  IF platform = "osx"
    THEN dir \o <<"/">> \o <<"t", "m", "p">> \o ZeroPad(Decimal(i), 4)
             \o <<".", "d", "y", "l", "i", "b">>
    ELSE dir \o <<"/">> \o get_source_name(i, sfx) \o <<".", "s", "o">>

\* get_source_fn is declared in base.h and defined elsewhere: the source file
\* lives in the cache folder under the source file name
get_source_fn(dir, i, sfx) == dir \o get_source_name(i, sfx)

\* the sibling the pre-format copy goes to: "{}_unformated"
unformated_fn(fn) == fn \o <<"_", "u", "n", "f", "o", "r", "m", "a", "t", "e", "d">>

(***************************************************************************)
(* State                                                                   *)
(***************************************************************************)
VARIABLES
  kernel_id,            \* get_kernel_id's function-local static int id
  pc,                   \* per constructing thread: its position in get_kernel_id
  tmp,                  \* per constructing thread: the value of id it holds in a register
  n_constructed,        \* number of constructors that completed (history)
  id,                   \* live instance -> its id member
  func_name,            \* live instance -> its func_name member
  suffix,               \* live instance -> its suffix member
  dll,                  \* live instance -> its dll member
  current_code_region,  \* live instance -> its current_code_region member
  codes,                \* live instance -> its codes map (region -> text)
  guards,               \* the live CodeRegionGuard objects, innermost last
  scope_region,         \* history: the region each live guard switched to
  nested_exit,          \* history: a guard was destroyed with two or more others live
  emitted,              \* history: the emit calls, in call order
  fs,                   \* the file system: path -> content of the files that exist
  last_write,           \* history: what the latest write_source call did
  objdump_calls,        \* history: the objdump commands run, with their outcome
  library_fn,           \* build platform -> get_library_fn result computed there
  dl_calls,             \* history: the dlopen and dlsym calls, in call order
  returned,             \* history: the values load_function returned
  fatal                 \* the fatal error that ended the process, if any

vars ==
  << kernel_id, pc, tmp, n_constructed, id, func_name, suffix, dll,
     current_code_region, codes, guards, scope_region, nested_exit, emitted, fs, last_write,
     objdump_calls, library_fn, dl_calls, returned, fatal >>

allocVars == << kernel_id, pc, tmp, n_constructed >>
instVars == << id, func_name, suffix, dll, current_code_region, codes >>
guardVars == << guards, scope_region, nested_exit >>
fileVars == << fs, last_write, objdump_calls >>
loadVars == << dl_calls, returned >>

NoError == [kind |-> "none", msg |-> ""]
Running == fatal = NoError

\* f with key k added or overwritten
Put(f, k, v) == [x \in (DOMAIN f) \cup {k} |-> IF x = k THEN v ELSE f[x]]
EmptyMap == [x \in {} |-> x]

(***************************************************************************)
(* Kernel identity allocator and constructor                               *)
(***************************************************************************)
\* the members the constructor body assigns, for instance slot i given the
\* id get_kernel_id returned; codes is default-constructed (empty map)
CodeGenBase(i, kid) ==
  /\ id' = Put(id, i, kid)
  /\ func_name' = Put(func_name, i, format_func_name(kid))
  /\ dll' = Put(dll, i, nullptr)
  /\ current_code_region' = Put(current_code_region, i, header)
  /\ codes' = Put(codes, i, EmptyMap)

\* a constructor whose get_kernel_id asserts id <= 10000
Construct_off_by_one(i) ==
  /\ Running
  /\ \A t \in Instances : pc[t] = "idle"
  /\ i = (n_constructed % NInstances) + 1
  /\ IF kernel_id <= KernelIdLimit
       THEN /\ kernel_id' = kernel_id + 1
            /\ CodeGenBase(i, kernel_id)
            /\ suffix' = Put(suffix, i, <<>>)
            /\ n_constructed' = n_constructed + 1
            /\ UNCHANGED fatal
       ELSE /\ fatal' = [kind |-> "TC_ASSERT", msg |-> "id < 10000"]
            /\ UNCHANGED << kernel_id, n_constructed, instVars >>
  /\ UNCHANGED << pc, tmp, guardVars, emitted, fileVars, library_fn, loadVars >>

\* A constructor run to completion by a single thread: get_kernel_id asserts,
\* returns the counter and increments it.  suffix is default-constructed (the
\* derived generators assign it).  Instance slots are reused in turn.
Construct(i) ==
  /\ Running
  /\ \A t \in Instances : pc[t] = "idle"
  /\ i = (n_constructed % NInstances) + 1
  /\ IF kernel_id < KernelIdLimit
       THEN /\ kernel_id' = kernel_id + 1
            /\ CodeGenBase(i, kernel_id)
            /\ suffix' = Put(suffix, i, <<>>)
            /\ n_constructed' = n_constructed + 1
            /\ UNCHANGED fatal
       ELSE /\ fatal' = [kind |-> "TC_ASSERT", msg |-> "id < 10000"]
            /\ UNCHANGED << kernel_id, n_constructed, instVars >>
  /\ UNCHANGED << pc, tmp, guardVars, emitted, fileVars, library_fn, loadVars >>

\* The derived generator's constructor assigns the language suffix.
SetSuffix(i, sfx) ==
  /\ Running
  /\ i \in DOMAIN id
  /\ suffix[i] = <<>>
  /\ suffix' = [suffix EXCEPT ![i] = sfx]
  /\ UNCHANGED << allocVars, id, func_name, dll, current_code_region, codes,
                  guardVars, emitted, fileVars, library_fn, loadVars, fatal >>

\* get_kernel_id run by thread t concurrently with other threads, one memory
\* access of the unsynchronised static at a time.
\* TC_ASSERT(id < 10000): load id and test it
GetKernelIdAssert(t) ==
  /\ Running
  /\ pc[t] = "idle"
  /\ t \notin DOMAIN id
  /\ tmp' = [tmp EXCEPT ![t] = kernel_id]
  /\ IF kernel_id < KernelIdLimit
       THEN /\ pc' = [pc EXCEPT ![t] = "asserted"]
            /\ UNCHANGED fatal
       ELSE /\ fatal' = [kind |-> "TC_ASSERT", msg |-> "id < 10000"]
            /\ UNCHANGED pc
  /\ UNCHANGED << kernel_id, n_constructed, instVars, guardVars, emitted,
                  fileVars, library_fn, loadVars >>

\* return id++: the operand is either loaded again or the value the assertion
\* loaded is reused (the accesses are not atomic, the build decides)
GetKernelIdLoad(t) ==
  /\ Running
  /\ pc[t] = "asserted"
  /\ \/ tmp' = [tmp EXCEPT ![t] = kernel_id]
     \/ UNCHANGED tmp
  /\ pc' = [pc EXCEPT ![t] = "loaded"]
  /\ UNCHANGED << kernel_id, n_constructed, instVars, guardVars, emitted,
                  fileVars, library_fn, loadVars, fatal >>

\* return id++: store the incremented value, return the old one; the rest of
\* the constructor touches only the new instance
GetKernelIdStore(t) ==
  /\ Running
  /\ pc[t] = "loaded"
  /\ kernel_id' = tmp[t] + 1
  /\ CodeGenBase(t, tmp[t])
  /\ suffix' = Put(suffix, t, <<>>)
  /\ n_constructed' = n_constructed + 1
  /\ pc' = [pc EXCEPT ![t] = "done"]
  /\ UNCHANGED << tmp, guardVars, emitted, fileVars, library_fn, loadVars, fatal >>

(***************************************************************************)
(* Region scope guard                                                      *)
(***************************************************************************)
\* the regions the modelled callers open guards for
GuardRegions == {body, residual_begin}

\* a guard constructor that also opens an empty buffer entry for its region
EnterGuard_touch(self, cr) ==
  /\ Running
  /\ self \in DOMAIN id
  /\ Len(guards) < MaxDepth
  /\ guards' = Append(guards, [codegen |-> self,
                               previous |-> current_code_region[self]])
  /\ current_code_region' = [current_code_region EXCEPT ![self] = cr]
  /\ scope_region' = Append(scope_region, cr)
  /\ codes' = [codes EXCEPT ![self] =
                 IF cr \in DOMAIN @ THEN @ ELSE (cr :> <<>>) @@ @]
  /\ UNCHANGED nested_exit
  /\ UNCHANGED << allocVars, id, func_name, suffix, dll, emitted,
                  fileVars, library_fn, loadVars, fatal >>

\* get_region_guard(cr) / CodeRegionGuard(codegen, current): capture the
\* instance's active region, then switch to the requested one.  The guard is a
\* block-scoped object, so the live guards form a stack.
EnterGuard(self, cr) ==
  /\ Running
  /\ self \in DOMAIN id
  /\ Len(guards) < MaxDepth
  /\ guards' = Append(guards, [codegen |-> self,
                               previous |-> current_code_region[self]])
  /\ current_code_region' = [current_code_region EXCEPT ![self] = cr]
  /\ scope_region' = Append(scope_region, cr)
  /\ UNCHANGED nested_exit
  /\ UNCHANGED << allocVars, id, func_name, suffix, dll, codes, emitted,
                  fileVars, library_fn, loadVars, fatal >>

\* a destructor that resets the instance to the header region instead of
\* restoring the captured one
ExitGuard_reset ==
  /\ Running
  /\ guards # <<>>
  /\ LET g == guards[Len(guards)]
     IN current_code_region' =
          [current_code_region EXCEPT ![g.codegen] = header]
  /\ guards' = SubSeq(guards, 1, Len(guards) - 1)
  /\ scope_region' = SubSeq(scope_region, 1, Len(scope_region) - 1)
  /\ nested_exit' = (nested_exit \/ Len(guards) >= 3)
  /\ UNCHANGED << allocVars, id, func_name, suffix, dll, codes, emitted,
                  fileVars, library_fn, loadVars, fatal >>

\* ~CodeRegionGuard of the innermost live guard (end of its block)
ExitGuard ==
  /\ Running
  /\ guards # <<>>
  /\ LET g == guards[Len(guards)]
     IN current_code_region' =
          [current_code_region EXCEPT ![g.codegen] = g.previous]
  /\ guards' = SubSeq(guards, 1, Len(guards) - 1)
  /\ scope_region' = SubSeq(scope_region, 1, Len(scope_region) - 1)
  /\ nested_exit' = (nested_exit \/ Len(guards) >= 3)
  /\ UNCHANGED << allocVars, id, func_name, suffix, dll, codes, emitted,
                  fileVars, library_fn, loadVars, fatal >>

(***************************************************************************)
(* emit                                                                    *)
(***************************************************************************)
\* the templates the modelled callers emit; the argument of the k-th call is
\* the decimal rendering of k, so that no two emitted lines are equal
EmitTemplates == { <<" ", "/", "/", "d", "e", "b", "u", "g", "{", "}", ";">> }
EmitArgs(k) == << Decimal(k) >>

\* an emit that puts the new line in front of the region's earlier text
emit_codes_prepend(cs, r, f, args) ==
  LET c0 == IF r \in DOMAIN cs THEN cs ELSE Put(cs, r, <<>>)
  IN [c0 EXCEPT ![r] = fmt_format(f, args) \o line_suffix \o @]

\* the codes map after emit(f, args...) with region r active
emit_codes(cs, r, f, args) ==
  LET c0 == IF r \in DOMAIN cs THEN cs ELSE Put(cs, r, <<>>)
  IN [c0 EXCEPT ![r] = @ \o fmt_format(f, args) \o line_suffix]

\* an emit that leaves the instance in the header region after appending
Emit_resets(self, f, args) ==
  /\ Running
  /\ self \in DOMAIN id
  /\ Len(emitted) < MaxEmits
  /\ codes' = [codes EXCEPT ![self] =
                 emit_codes(@, current_code_region[self], f, args)]
  /\ emitted' = Append(emitted, [codegen |-> self,
                                 region |-> current_code_region[self],
                                 text |-> fmt_format(f, args)])
  /\ current_code_region' = [current_code_region EXCEPT ![self] = header]
  /\ UNCHANGED << allocVars, id, func_name, suffix, dll,
                  guardVars, fileVars, library_fn, loadVars, fatal >>

\* emit(f, args...): format, then append to the active region's entry
Emit(self, f, args) ==
  /\ Running
  /\ self \in DOMAIN id
  /\ Len(emitted) < MaxEmits
  /\ codes' = [codes EXCEPT ![self] =
                 emit_codes(@, current_code_region[self], f, args)]
  /\ emitted' = Append(emitted, [codegen |-> self,
                                 region |-> current_code_region[self],
                                 text |-> fmt_format(f, args)])
  /\ UNCHANGED << allocVars, id, func_name, suffix, dll, current_code_region,
                  guardVars, fileVars, library_fn, loadVars, fatal >>

(***************************************************************************)
(* write_source                                                            *)
(***************************************************************************)
\* std::ifstream + std::getline: the first line of the file, empty when the
\* file does not exist
first_line(files, fn) == IF fn \in DOMAIN files THEN getline(files[fn]) ELSE <<>>

Min(S) == CHOOSE x \in S : \A y \in S : x <= y

\* of << "// region "
region_marker == <<"/", "/", " ", "r", "e", "g", "i", "o", "n", " ">>

\* the entries streamed in decreasing key order, as a map ordered by
\* std::greater would be iterated
Max(S) == CHOOSE x \in S : \A y \in S : x >= y
RECURSIVE stream_codes_descending(_, _)
stream_codes_descending(cs, keys) ==
  IF keys = {} THEN <<>>
  ELSE LET k == Max(keys)
       IN region_marker \o get_region_name(k) \o endl \o cs[k]
            \o stream_codes_descending(cs, keys \ {k})

\* each entry written as its text first and its region line after it
RECURSIVE stream_codes_text_first(_, _)
stream_codes_text_first(cs, keys) ==
  IF keys = {} THEN <<>>
  ELSE LET k == Min(keys)
       IN cs[k] \o region_marker \o get_region_name(k) \o endl
            \o stream_codes_text_first(cs, keys \ {k})

\* for (auto const &k : codes): std::map iterates in increasing key order;
\* each entry is written as the region line and then its text
RECURSIVE stream_codes(_, _)
stream_codes(cs, keys) ==
  IF keys = {} THEN <<>>
  ELSE LET k == Min(keys)
       IN region_marker \o get_region_name(k) \o endl \o cs[k]
            \o stream_codes(cs, keys \ {k})

\* a stream opened for appending: the old content stays in front
assemble_source_append(old, cs) == old \o stream_codes(cs, DOMAIN cs)

\* std::ofstream of(fn): the file is truncated, then the regions are streamed
assemble_source(old, cs) == stream_codes(cs, DOMAIN cs)

\* clang-format -i, an external tool: modelled as removing the blanks that
\* start a line.  s[i] is such a blank:
RECURSIVE LeadingBlank(_, _)
LeadingBlank(s, i) ==
  /\ s[i] = " "
  /\ \/ i = 1
     \/ s[i - 1] = "\n"
     \/ LeadingBlank(s, i - 1)

\* s[lo..hi] without its leading blanks
RECURSIVE StripBlanks(_, _, _)
StripBlanks(s, lo, hi) ==
  IF lo > hi THEN <<>>
  ELSE IF lo = hi THEN (IF LeadingBlank(s, lo) THEN <<>> ELSE <<s[lo]>>)
  ELSE LET mid == (lo + hi) \div 2
       IN StripBlanks(s, lo, mid) \o StripBlanks(s, mid + 1, hi)

clang_format(content) == StripBlanks(content, 1, Len(content))

\* no write_source call made yet
NoWrite ==
  [ called |-> FALSE, codegen |-> 0, skipped |-> FALSE, n_emitted |-> 0,
    content |-> <<>>, commands |-> <<>>, repeats |-> FALSE, before |-> <<>> ]

\* a write_source that empties the code buffer before it returns
WriteSource_clears(self, cp_ok, format_ok) ==
  /\ Running
  /\ self \in DOMAIN id
  /\ LET fn == get_source_fn(folder, id[self], suffix[self])
         old == IF fn \in DOMAIN fs THEN fs[fn] ELSE <<>>
     IN IF Contains(first_line(fs, fn), DebugMarker)
          THEN \* TC_WARN and return
               /\ last_write' = [ called |-> TRUE, codegen |-> self,
                                  skipped |-> TRUE, n_emitted |-> Len(emitted),
                                  content |-> <<>>, commands |-> <<>>,
                                  repeats |-> FALSE, before |-> <<>> ]
               /\ UNCHANGED fs
          ELSE LET content == assemble_source(old, codes[self])
                   copied == IF cp_ok THEN Put(fs, unformated_fn(fn), content)
                                      ELSE fs
                   again == /\ last_write.called
                            /\ ~last_write.skipped
                            /\ last_write.codegen = self
                            /\ last_write.n_emitted = Len(emitted)
               IN /\ fs' = Put(copied, fn,
                               IF format_ok THEN clang_format(content)
                                            ELSE content)
                  /\ last_write' =
                       [ called |-> TRUE, codegen |-> self, skipped |-> FALSE,
                         n_emitted |-> Len(emitted), content |-> content,
                         commands |-> << [tool |-> "cp", ok |-> cp_ok],
                                         [tool |-> "clang-format", ok |-> format_ok] >>,
                         repeats |-> again,
                         before |-> IF again THEN last_write.content ELSE <<>> ]
  /\ codes' = [codes EXCEPT ![self] = EmptyMap]
  /\ UNCHANGED << allocVars, id, func_name, suffix, dll, current_code_region,
                  guardVars, emitted, objdump_calls, library_fn, loadVars,
                  fatal >>

\* write_source of instance self; cp_ok and format_ok are the outcomes of the
\* two std::system commands (exit status zero or not).  last_write records
\* the call: whether it took the debug return, the text streamed into the
\* file before the commands ran, the commands run, and, when the call before
\* it also wrote and nothing was emitted in between, what that call streamed.
WriteSource(self, cp_ok, format_ok) ==
  /\ Running
  /\ self \in DOMAIN id
  /\ LET fn == get_source_fn(folder, id[self], suffix[self])
         old == IF fn \in DOMAIN fs THEN fs[fn] ELSE <<>>
     IN IF Contains(first_line(fs, fn), DebugMarker)
          THEN \* TC_WARN and return
               /\ last_write' = [ called |-> TRUE, codegen |-> self,
                                  skipped |-> TRUE, n_emitted |-> Len(emitted),
                                  content |-> <<>>, commands |-> <<>>,
                                  repeats |-> FALSE, before |-> <<>> ]
               /\ UNCHANGED fs
          ELSE LET content == assemble_source(old, codes[self])
                   copied == IF cp_ok THEN Put(fs, unformated_fn(fn), content)
                                      ELSE fs
                   again == /\ last_write.called
                            /\ ~last_write.skipped
                            /\ last_write.codegen = self
                            /\ last_write.n_emitted = Len(emitted)
               IN /\ fs' = Put(copied, fn,
                               IF format_ok THEN clang_format(content)
                                            ELSE content)
                  /\ last_write' =
                       [ called |-> TRUE, codegen |-> self, skipped |-> FALSE,
                         n_emitted |-> Len(emitted), content |-> content,
                         commands |-> << [tool |-> "cp", ok |-> cp_ok],
                                         [tool |-> "clang-format", ok |-> format_ok] >>,
                         repeats |-> again,
                         before |-> IF again THEN last_write.content ELSE <<>> ]
  /\ UNCHANGED << allocVars, instVars, guardVars, emitted, objdump_calls,
                  library_fn, loadVars, fatal >>

(***************************************************************************)
(* Dynamic loader                                                          *)
(***************************************************************************)
\* what dlopen can answer: a fresh non-null handle, or the null pointer with
\* the message dlerror() then returns
DlopenFailures ==
  { [handle |-> nullptr, error |-> "cannot open shared object file"],
    [handle |-> nullptr, error |-> "invalid ELF header"] }
DlopenResults(n_opened) ==
  DlopenFailures \cup { [handle |-> n_opened + 1, error |-> ""] }

\* what dlsym can answer: the null pointer or the symbol's address
DlsymResults == {nullptr, 4096}

\* symbol names passed to load_function<T>(name) besides func_name
OtherSymbols == { <<"m", "a", "i", "n">> }

NumOpens(calls) == Cardinality({k \in 1..Len(calls) : calls[k].fn = "dlopen"})

\* a load_dll that does not test what dlopen returned
load_dll_unchecked(opened) == [dll |-> opened.handle, fatal |-> NoError]

\* load_dll: dll = dlopen("./" + get_library_fn(), RTLD_LAZY); a null result
\* is fatal with dlerror()'s message.  Yields the new dll member and the error.
load_dll(opened) ==
  [ dll |-> opened.handle,
    fatal |-> IF opened.handle = nullptr
                THEN [kind |-> "TC_ERROR", msg |-> opened.error]
                ELSE NoError ]

\* a test that always asks for the library to be opened
dll_is_null_always(handle) == TRUE

\* if (dll == nullptr)
dll_is_null(handle) == handle = nullptr

\* an assertion that lets every dlsym result through
ret_is_null_never(ret) == FALSE

\* TC_ASSERT(ret != nullptr) fails
ret_is_null(ret) == ret = nullptr

\* load_function<T>(name): open the library if no handle is cached, resolve
\* the symbol, assert it is non-null, return it
load_function(self, name, opened, sym) ==
  LET must_open == dll_is_null(dll[self])
      loaded == IF must_open THEN load_dll(opened)
                             ELSE [dll |-> dll[self], fatal |-> NoError]
      calls1 == IF must_open
                  THEN Append(dl_calls, [fn |-> "dlopen", codegen |-> self,
                                         handle |-> nullptr, name |-> <<>>,
                                         ret |-> opened.handle,
                                         error |-> opened.error])
                  ELSE dl_calls
  IN /\ dll' = [dll EXCEPT ![self] = loaded.dll]
     /\ IF loaded.fatal # NoError
          THEN /\ fatal' = loaded.fatal
               /\ dl_calls' = calls1
               /\ UNCHANGED returned
          ELSE /\ dl_calls' = Append(calls1, [fn |-> "dlsym", codegen |-> self,
                                              handle |-> loaded.dll,
                                              name |-> name, ret |-> sym,
                                              error |-> ""])
               /\ IF ret_is_null(sym)
                    THEN /\ fatal' = [kind |-> "TC_ASSERT", msg |-> "ret != nullptr"]
                         /\ UNCHANGED returned
                    ELSE /\ returned' = Append(returned,
                                               [codegen |-> self, name |-> name,
                                                handle |-> loaded.dll, value |-> sym])
                         /\ UNCHANGED fatal

\* load_function<T>(name) called with a symbol name of the caller's choosing
LoadFunctionNamed(self, name, opened, sym) ==
  /\ Running
  /\ self \in DOMAIN id
  /\ Len(returned) < MaxLoads
  /\ opened \in DlopenResults(NumOpens(dl_calls))
  /\ load_function(self, name, opened, sym)
  /\ UNCHANGED << allocVars, id, func_name, suffix, current_code_region, codes,
                  guardVars, emitted, fileVars, library_fn >>

\* load_function(): load_function<FunctionType>(func_name)
LoadFunction(self, opened, sym) ==
  /\ Running
  /\ self \in DOMAIN id
  /\ Len(returned) < MaxLoads
  /\ opened \in DlopenResults(NumOpens(dl_calls))
  /\ load_function(self, func_name[self], opened, sym)
  /\ UNCHANGED << allocVars, id, func_name, suffix, current_code_region, codes,
                  guardVars, emitted, fileVars, library_fn >>

(***************************************************************************)
(* disassemble                                                             *)
(***************************************************************************)
\* a disassemble that raises an error when objdump exits with a nonzero status
Disassemble_checked(self, platform, objdump_ok) ==
  /\ Running
  /\ self \in DOMAIN id
  /\ IF platform = "linux"
       THEN /\ Len(objdump_calls) < MaxDisasm
            /\ objdump_calls' = Append(objdump_calls,
                                       [codegen |-> self, ok |-> objdump_ok])
            /\ fatal' = IF objdump_ok THEN fatal
                        ELSE [kind |-> "TC_ERROR", msg |-> "objdump failed"]
       ELSE UNCHANGED << objdump_calls, fatal >>
  /\ UNCHANGED << allocVars, instVars, guardVars, emitted, fs, last_write,
                  library_fn, loadVars >>

\* disassemble: on TC_PLATFORM_LINUX one objdump command whose exit status
\* (objdump_ok: zero or not) is discarded (the program never reads its
\* output); on other builds the body is empty
Disassemble(self, platform, objdump_ok) ==
  /\ Running
  /\ self \in DOMAIN id
  /\ IF platform = "linux"
       THEN /\ Len(objdump_calls) < MaxDisasm
            /\ objdump_calls' = Append(objdump_calls,
                                       [codegen |-> self, ok |-> objdump_ok])
       ELSE UNCHANGED objdump_calls
  /\ UNCHANGED << allocVars, instVars, guardVars, emitted, fs, last_write,
                  library_fn, loadVars, fatal >>

(***************************************************************************)
(* get_library_fn as an operation of an instance                           *)
(***************************************************************************)
\* the result of get_library_fn() on a build for the given platform, kept
\* with the members it was computed from
GetLibraryFn(self, platform) ==
  /\ Running
  /\ self \in DOMAIN id
  /\ library_fn' = Put(library_fn, platform,
                       [id |-> id[self], suffix |-> suffix[self],
                        path |-> get_library_fn(platform, folder, id[self],
                                                suffix[self])])
  /\ UNCHANGED << allocVars, instVars, guardVars, emitted, fileVars,
                  loadVars, fatal >>

(***************************************************************************)
(* Initial states                                                          *)
(***************************************************************************)
\* process start: no instance constructed yet, the static counter is 0
Fresh(first_id) ==
  /\ kernel_id = first_id
  /\ n_constructed = first_id
  /\ pc = [t \in Instances |-> "idle"]
  /\ tmp = [t \in Instances |-> 0]
  /\ id = EmptyMap
  /\ func_name = EmptyMap
  /\ suffix = EmptyMap
  /\ dll = EmptyMap
  /\ current_code_region = EmptyMap
  /\ codes = EmptyMap
  /\ guards = <<>>
  /\ scope_region = <<>>
  /\ nested_exit = FALSE
  /\ emitted = <<>>
  /\ fs = EmptyMap
  /\ last_write = NoWrite
  /\ objdump_calls = <<>>
  /\ library_fn = EmptyMap
  /\ dl_calls = <<>>
  /\ returned = <<>>
  /\ fatal = NoError

\* one instance, constructed first in its process (id 0), of a generator
\* with the given suffix
OneInstance(kid, sfx) ==
  /\ kernel_id = kid + 1
  /\ n_constructed = kid + 1
  /\ pc = [t \in Instances |-> "idle"]
  /\ tmp = [t \in Instances |-> 0]
  /\ id = (1 :> kid)
  /\ func_name = (1 :> format_func_name(kid))
  /\ suffix = (1 :> sfx)
  /\ dll = (1 :> nullptr)
  /\ current_code_region = (1 :> header)
  /\ codes = (1 :> EmptyMap)
  /\ guards = <<>>
  /\ scope_region = <<>>
  /\ nested_exit = FALSE
  /\ emitted = <<>>
  /\ last_write = NoWrite
  /\ objdump_calls = <<>>
  /\ library_fn = EmptyMap
  /\ dl_calls = <<>>
  /\ returned = <<>>
  /\ fatal = NoError

\* what the cache folder may hold at the instance's source path when the
\* process starts: nothing, a file a developer marked on its first line, or a
\* file left by an earlier run whose first line has no marker
HandEdited ==
  <<"/", "/", " ", "d", "e", "b", "u", "g", "\n", "y", "=", "2", ";", "\n">>
Stale == <<"o", "l", "d", "\n", "d", "e", "b", "u", "g", "\n">>
InitialFiles(fn) == { EmptyMap, (fn :> HandEdited), (fn :> Stale) }

Init ==
  /\ OneInstance(0, <<"c", "p", "p">>)
  /\ fs \in InitialFiles(get_source_fn(folder, 0, <<"c", "p", "p">>))

Next ==
  \/ \E cr \in GuardRegions : EnterGuard(1, cr)
  \/ ExitGuard
  \/ \E f \in EmitTemplates : Emit(1, f, EmitArgs(Len(emitted)))
  \/ \E cp_ok \in BOOLEAN, format_ok \in BOOLEAN : WriteSource(1, cp_ok, format_ok)

Spec == Init /\ [][Next]_vars

\* the loader and the disassembler of one instance
InitLoad ==
  /\ OneInstance(0, <<"c", "p", "p">>)
  /\ fs = EmptyMap

NextLoad ==
  \/ \E o \in DlopenResults(NumOpens(dl_calls)), s \in DlsymResults :
       LoadFunction(1, o, s)
  \/ \E n \in OtherSymbols, o \in DlopenResults(NumOpens(dl_calls)),
        s \in DlsymResults : LoadFunctionNamed(1, n, o, s)
  \/ \E p \in Platforms, ok \in BOOLEAN : Disassemble(1, p, ok)
  \/ \E cr \in GuardRegions : EnterGuard(1, cr)
  \/ ExitGuard

SpecLoad == InitLoad /\ [][NextLoad]_vars

\* every operation of one instance in any order: guards, emit, write_source,
\* the loader and the disassembler.  AllCalls bounds the load_function and
\* objdump calls of a run together.
AllDepth == 1
AllEmits == 1
AllCalls == 1

\* load_function and objdump calls made so far
ToolCalls == Len(returned) + Len(objdump_calls)

InitAll ==
  /\ OneInstance(0, <<"c", "p", "p">>)
  /\ fs \in InitialFiles(get_source_fn(folder, 0, <<"c", "p", "p">>))

NextAll ==
  \/ \E cr \in GuardRegions : Len(guards) < AllDepth /\ EnterGuard(1, cr)
  \/ ExitGuard
  \/ \E f \in EmitTemplates :
       Len(emitted) < AllEmits /\ Emit(1, f, EmitArgs(Len(emitted)))
  \/ \E cp_ok \in BOOLEAN, format_ok \in BOOLEAN : WriteSource(1, cp_ok, format_ok)
  \/ \E o \in DlopenResults(NumOpens(dl_calls)), s \in DlsymResults :
       ToolCalls < AllCalls /\ LoadFunction(1, o, s)
  \/ \E n \in OtherSymbols, o \in DlopenResults(NumOpens(dl_calls)),
        s \in DlsymResults :
       ToolCalls < AllCalls /\ LoadFunctionNamed(1, n, o, s)
  \/ \E p \in Platforms, ok \in BOOLEAN :
       ToolCalls < AllCalls /\ Disassemble(1, p, ok)

SpecAll == InitAll /\ [][NextAll]_vars

\* instances constructed one after another from process start
InitSeq == Fresh(0)

NextSeq == \E i \in Instances : Construct(i)

SpecSeq == InitSeq /\ [][NextSeq]_vars

\* one thread per instance slot constructing concurrently, from process start
\* or after sequential constructions brought the counter near the limit
ConcStart == {0, KernelIdLimit - 2, KernelIdLimit - 1}

InitConc == \E k \in ConcStart : Fresh(k)

NextConc ==
  \E t \in Instances :
    \/ GetKernelIdAssert(t)
    \/ GetKernelIdLoad(t)
    \/ GetKernelIdStore(t)

SpecConc == InitConc /\ [][NextConc]_vars

\* artifact naming of one instance, for ids across the allocator's range
MaxNameId == 12
NameIds == (0..MaxNameId) \cup {99, 100, 999, 1000, KernelIdLimit - 1}

InitNaming ==
  \E k \in NameIds :
    /\ OneInstance(k, <<>>)
    /\ fs = EmptyMap

NextNaming ==
  \/ \E sfx \in Suffixes : SetSuffix(1, sfx)
  \/ \E p \in Platforms : GetLibraryFn(1, p)

SpecNaming == InitNaming /\ [][NextNaming]_vars

(***************************************************************************)
(* Properties                                                              *)
(***************************************************************************)
\* the source path of the instance the emission specification follows
SourceFn == get_source_fn(folder, id[1], suffix[1])

\* the lines emitted into region r according to the call history, in call
\* order, each with its terminator
RECURSIVE RegionText(_, _)
RegionText(log, r) ==
  IF log = <<>> THEN <<>>
  ELSE (IF Head(log).region = r THEN Head(log).text \o <<"\n">> ELSE <<>>)
         \o RegionText(Tail(log), r)

\* the blocks of the regions r, r+1, ... tail that were emitted into
RECURSIVE BlocksFrom(_, _)
BlocksFrom(log, r) ==
  IF r > tail THEN <<>>
  ELSE (IF \E k \in 1..Len(log) : log[k].region = r
          THEN region_marker \o get_region_name(r) \o <<"\n">> \o RegionText(log, r)
          ELSE <<>>)
         \o BlocksFrom(log, r + 1)

\* the emit calls made before the latest write_source call
EmittedAtWrite == SubSeq(emitted, 1, last_write.n_emitted)

\* C1: whatever the order of the emit calls, the text a write_source call
\* streams into the file (no debug marker, before the formatter runs) is, region
\* by region in declaration order, the region line followed by what was
\* emitted into that region; the copy and an unformatted file hold that text.
Thm_C1 ==
  (last_write.called /\ ~last_write.skipped) =>
     /\ last_write.content = BlocksFrom(EmittedAtWrite, header)
     /\ last_write.commands[1].ok =>
          fs[unformated_fn(SourceFn)] = BlocksFrom(EmittedAtWrite, header)
     /\ ~last_write.commands[2].ok =>
          fs[SourceFn] = BlocksFrom(EmittedAtWrite, header)

\* body was emitted into first and header second, and the file was written
Witness_C1 ==
  /\ last_write.called /\ ~last_write.skipped
  /\ last_write.n_emitted = 2
  /\ emitted[1].region = body
  /\ emitted[2].region = header
  /\ ~last_write.commands[2].ok
  /\ MatchAt(fs[SourceFn], region_marker \o get_region_name(header), 1)

\* C2: with guards destroyed innermost first, the active region is always the
\* one the innermost live guard switched to, or the initial header region
\* when no guard is live, and every live guard holds the region that was
\* active just before it was created: destroying a guard therefore restores
\* exactly that region, at any nesting depth.
Thm_C2 ==
  /\ Len(scope_region) = Len(guards)
  /\ current_code_region[1] =
       IF guards = <<>> THEN header ELSE scope_region[Len(guards)]
  /\ \A k \in 1..Len(guards) :
       guards[k].previous = IF k = 1 THEN header ELSE scope_region[k - 1]

\* a guard nested three deep was destroyed, two guards for different regions
\* are still live, and text has landed in the enclosing guard's region
Witness_C2 ==
  /\ nested_exit
  /\ scope_region = <<body, residual_begin>>
  /\ current_code_region[1] = residual_begin
  /\ residual_begin \in DOMAIN codes[1]

\* C3: constructed one after another, the k-th constructor (from 0) gets id
\* k (slot i holds the latest construction whose index is i-1 modulo the
\* number of slots), so ids are distinct and increasing from 0; no instance
\* holds an id at or above 10000, the counter never passes 10000, and the
\* only failure is the assertion once 10000 ids are out, which leaves the
\* counter where it was.
Thm_C3 ==
  /\ kernel_id = n_constructed
  /\ kernel_id <= KernelIdLimit
  /\ DOMAIN id = {i \in Instances : i <= n_constructed}
  /\ \A i \in DOMAIN id :
       /\ id[i] % NInstances = i - 1
       /\ id[i] < n_constructed
       /\ id[i] >= n_constructed - NInstances
       /\ id[i] < KernelIdLimit
  /\ \A i, j \in DOMAIN id : i # j => id[i] # id[j]
  /\ fatal # NoError =>
       /\ fatal.kind = "TC_ASSERT"
       /\ n_constructed = KernelIdLimit
  /\ (fatal = NoError /\ n_constructed = KernelIdLimit) =>
       \A i \in Instances : ~ENABLED (Construct(i) /\ n_constructed' # n_constructed)

\* the construction after the 10000th has failed
Witness_C3 ==
  /\ fatal.kind = "TC_ASSERT"
  /\ n_constructed = KernelIdLimit
  /\ \E i \in DOMAIN id : id[i] = KernelIdLimit - 1

\* C4: instances constructed concurrently by different threads receive
\* pairwise distinct ids.
Claim_C4 ==
  \A s, t \in DOMAIN id : s # t => id[s] # id[t]

\* the source file exists and its first line contains the debug marker
DebugFirstLine ==
  /\ SourceFn \in DOMAIN fs
  /\ LET line == getline(fs[SourceFn])
     IN \E k \in 0..(Len(line) - Len(DebugMarker)) :
          SubSeq(line, k + 1, k + Len(DebugMarker)) = DebugMarker

\* C5: a write_source call made while the source file exists with the debug
\* marker in its first line changes no file (the source file keeps its
\* bytes, no copy appears), runs no command, and leaves the code buffer and
\* the active region as they were.
Thm_C5 ==
  [][ (DebugFirstLine /\ \E c \in BOOLEAN, f \in BOOLEAN : WriteSource(1, c, f))
        => /\ fs' = fs
           /\ last_write'.skipped
           /\ last_write'.commands = <<>>
           /\ codes' = codes
           /\ current_code_region' = current_code_region ]_vars

\* write_source took the debug return with text in the buffer: the marked
\* file is intact and there is no copy
Witness_C5 ==
  /\ last_write.called /\ last_write.skipped
  /\ codes[1] # EmptyMap
  /\ fs = (SourceFn :> HandEdited)

\* C6: a write_source call that follows another one with no emit in between
\* (neither took the debug return) streams exactly the text the earlier call
\* streamed, whatever the earlier call and the formatter left in the file.
Thm_C6 ==
  last_write.repeats => last_write.content = last_write.before

\* the second of two such calls, made with text in the buffer that the
\* formatter rewrites when it succeeds
Witness_C6 ==
  /\ last_write.repeats
  /\ last_write.n_emitted > 0
  /\ ~last_write.commands[2].ok
  /\ last_write.commands[1].ok
  /\ fs[SourceFn] # clang_format(fs[SourceFn])

\* the dlopen calls and the dlsym calls made so far
Opens == {k \in 1..Len(dl_calls) : dl_calls[k].fn = "dlopen"}
Lookups == {k \in 1..Len(dl_calls) : dl_calls[k].fn = "dlsym"}
\* no load_function call has been made yet
NotLoadedYet == returned = <<>> /\ fatal = NoError

\* C7: the library is opened lazily and once: nothing is opened before the
\* first load_function call, that call's first step is the only dlopen ever
\* made, every symbol (whatever its name) is then looked up in the handle
\* that dlopen returned, and the dll member stays that handle.
Thm_C7 ==
  /\ NotLoadedYet => (dl_calls = <<>> /\ dll[1] = nullptr)
  /\ ~NotLoadedYet => (dl_calls # <<>> /\ Opens = {1})
  /\ \A k \in Lookups :
       /\ dl_calls[1].ret # nullptr
       /\ dl_calls[k].handle = dl_calls[1].ret
       /\ dll[1] = dl_calls[1].ret
  /\ \A k \in 1..Len(returned) : returned[k].handle = dl_calls[1].ret

\* two load_function calls for different symbols have returned, after one open
Witness_C7 ==
  /\ Len(returned) = 2
  /\ returned[1].name # returned[2].name
  /\ Cardinality(Opens) = 1
  /\ Cardinality(Lookups) = 2

\* C8: a failed dlopen is fatal with the loader's own message: the error
\* reported is what dlerror() gave for that dlopen, nothing was looked up or
\* returned by the call, and the dll member is null; and no failed dlopen
\* goes unreported.
Thm_C8 ==
  /\ (\E k \in Opens : dl_calls[k].ret = nullptr) => fatal.kind = "TC_ERROR"
  /\ fatal.kind = "TC_ERROR" =>
       LET last == dl_calls[Len(dl_calls)]
       IN /\ last.fn = "dlopen"
          /\ last.ret = nullptr
          /\ fatal.msg = last.error
          /\ fatal.msg # ""
          /\ dll[1] = nullptr
          /\ Lookups = {}
          /\ returned = <<>>

\* load_function died on a library that is not a valid shared object
Witness_C8 ==
  /\ fatal = [kind |-> "TC_ERROR", msg |-> "invalid ELF header"]
  /\ dll[1] = nullptr

\* every value load_function returned is a non-null address that a dlsym call
\* on a successfully opened handle gave for the requested name, and every
\* null dlsym result was fatal
ReturnedAreResolved ==
  /\ \A k \in 1..Len(returned) :
       /\ returned[k].value # nullptr
       /\ returned[k].handle # nullptr
       /\ \E o \in Opens : dl_calls[o].ret = returned[k].handle
       /\ \E l \in Lookups :
            /\ dl_calls[l].handle = returned[k].handle
            /\ dl_calls[l].name = returned[k].name
            /\ dl_calls[l].ret = returned[k].value
  /\ (\E l \in Lookups : dl_calls[l].ret = nullptr) =>
       /\ fatal.kind = "TC_ASSERT"
       /\ dl_calls[Len(dl_calls)].ret = nullptr
  /\ Cardinality({l \in Lookups : dl_calls[l].ret # nullptr}) = Len(returned)

\* C9: a symbol that is absent from the opened library is fatal, so what
\* load_function returns is always a non-null address resolved from a
\* successfully opened library, and load_function() resolves it for the
\* instance's function name, "func" and the six-digit id.
Thm_C9 ==
  /\ []ReturnedAreResolved
  /\ [][ ((\E o \in DlopenResults(NumOpens(dl_calls)), s \in DlsymResults : LoadFunction(1, o, s))
            /\ Len(returned') > Len(returned))
          => returned'[Len(returned')].name =
               <<"f", "u", "n", "c">> \o ZeroPad(Decimal(id[1]), 6) ]_vars

\* the library opened and served one symbol, then a symbol was missing
Witness_C9 ==
  /\ fatal.kind = "TC_ASSERT"
  /\ dll[1] # nullptr
  /\ Len(returned) = 1
  /\ dl_calls[Len(dl_calls)].fn = "dlsym"
  /\ dl_calls[Len(dl_calls)].ret = nullptr

DropLast(s, n) == SubSeq(s, 1, Len(s) - n)
EndsWith(s, t) == Len(t) <= Len(s) /\ SubSeq(s, Len(s) - Len(t) + 1, Len(s)) = t
Dylib == <<".", "d", "y", "l", "i", "b">>
So == <<".", "s", "o">>
\* library paths computed for the same instance members on the OSX build (a)
\* and on another build (b)
SameKernel(a, b) ==
  /\ a = "osx" /\ b # "osx"
  /\ a \in DOMAIN library_fn /\ b \in DOMAIN library_fn
  /\ library_fn[a].id = library_fn[b].id
  /\ library_fn[a].suffix = library_fn[b].suffix

\* C10 as stated: the two paths are equal once the platform extension is
\* taken off, and what is left ends with the source file name.
Claim_C10 ==
  \A a, b \in Platforms :
    SameKernel(a, b) =>
      /\ EndsWith(library_fn[a].path, Dylib)
      /\ EndsWith(library_fn[b].path, So)
      /\ DropLast(library_fn[a].path, Len(Dylib)) = DropLast(library_fn[b].path, Len(So))
      /\ EndsWith(DropLast(library_fn[a].path, Len(Dylib)),
                  get_source_name(library_fn[a].id, library_fn[a].suffix))

\* the id in four decimal digits, for ids below 10000
FourDigits(n) ==
  LET d == <<"0", "1", "2", "3", "4", "5", "6", "7", "8", "9">>
  IN << d[((n \div 1000) % 10) + 1], d[((n \div 100) % 10) + 1],
        d[((n \div 10) % 10) + 1], d[(n % 10) + 1] >>

\* C10 amended: both paths start with the folder, "/", "tmp" and the
\* four-digit id; the OSX path continues with ".dylib" alone, the other path
\* with ".", the language suffix and ".so" (the source file name plus ".so").
\* The language suffix is thus part of the path on one branch only.
Thm_C10 ==
  \A a, b \in Platforms :
    SameKernel(a, b) =>
      LET stem == folder \o <<"/", "t", "m", "p">> \o FourDigits(library_fn[a].id)
      IN /\ library_fn[a].path = stem \o Dylib
         /\ library_fn[b].path = stem \o <<".">> \o library_fn[b].suffix \o So
         /\ library_fn[b].path =
              folder \o <<"/">>
                \o get_source_name(library_fn[b].id, library_fn[b].suffix) \o So

\* both paths computed for kernel 7 of the C++ generator
Witness_C10 ==
  /\ SameKernel("osx", "linux")
  /\ library_fn["osx"].id = 7
  /\ library_fn["osx"].suffix = <<"c", "p", "p">>

(***************************************************************************)
(* C11: naming is injective in the id                                      *)
(***************************************************************************)
\* the value of a decimal digit character, -1 for any other character
DigitValue(c) ==
  CASE c = "0" -> 0 [] c = "1" -> 1 [] c = "2" -> 2 [] c = "3" -> 3
    [] c = "4" -> 4 [] c = "5" -> 5 [] c = "6" -> 6 [] c = "7" -> 7
    [] c = "8" -> 8 [] c = "9" -> 9 [] OTHER -> -1

IsDigits(ds) == \A k \in 1..Len(ds) : DigitValue(ds[k]) >= 0

\* the number a string of decimal digits denotes
RECURSIVE ParseInt(_)
ParseInt(ds) ==
  IF ds = <<>> THEN 0
  ELSE ParseInt(DropLast(ds, 1)) * 10 + DigitValue(ds[Len(ds)])

\* the characters of s before its first "."
UpToDot(s) ==
  IF \E k \in 1..Len(s) : s[k] = "."
    THEN SubSeq(s, 1, (CHOOSE k \in 1..Len(s) :
                         s[k] = "." /\ \A j \in 1..(k - 1) : s[j] # ".") - 1)
    ELSE s

\* s is the prefix followed by exactly w decimal digits that denote n, and
\* then by the given rest
ReadsAs(s, prefix, w, n, rest) ==
  /\ Len(s) = Len(prefix) + w + Len(rest)
  /\ SubSeq(s, 1, Len(prefix)) = prefix
  /\ SubSeq(s, Len(prefix) + w + 1, Len(s)) = rest
  /\ LET ds == SubSeq(s, Len(prefix) + 1, Len(prefix) + w)
     IN IsDigits(ds) /\ ParseInt(ds) = n

\* the language suffixes an instance may carry: unset, or a generator's
SuffixChoices == Suffixes \cup {<<>>}

\* the id can be read back from each name of the instance in slot i: the
\* function name is "func" and six digits, the source file name "tmp", four
\* digits, "." and the suffix, and the library path holds the same four digits
\* after the folder
NamesReadBack(i) ==
  /\ ReadsAs(func_name[i], <<"f", "u", "n", "c">>, 6, id[i], <<>>)
  /\ \A sfx \in SuffixChoices :
       /\ ReadsAs(get_source_name(id[i], sfx), <<"t", "m", "p">>, 4, id[i],
                  <<".">> \o sfx)
       /\ \A p \in Platforms :
            LET path == get_library_fn(p, folder, id[i], sfx)
                stem == folder \o <<"/", "t", "m", "p">>
            IN /\ SubSeq(path, 1, Len(stem)) = stem
               /\ LET ds == UpToDot(SubSeq(path, Len(stem) + 1, Len(path)))
                  IN Len(ds) = 4 /\ IsDigits(ds) /\ ParseInt(ds) = id[i]

\* two live instances never share a function name, a source file name or a
\* library path (same platform, same suffix)
NamesDiffer(i, j) ==
  /\ func_name[i] # func_name[j]
  /\ \A sfx \in SuffixChoices :
       /\ get_source_name(id[i], sfx) # get_source_name(id[j], sfx)
       /\ \A p \in Platforms :
            get_library_fn(p, folder, id[i], sfx)
              # get_library_fn(p, folder, id[j], sfx)

\* the slot the next sequential construction fills
NextSlot == (n_constructed % NInstances) + 1

\* C11: for instances constructed one after another, every id below the
\* ceiling can be read back from the instance's function name, source file
\* name and library path (so the three names are injective in the id), any
\* two live instances differ in all three, and constructing one instance
\* leaves the id and the function name of every other instance unchanged.
Thm_C11 ==
  /\ [](\A i \in DOMAIN id :
          /\ id[i] < KernelIdLimit
          /\ NamesReadBack(i)
          /\ \A j \in DOMAIN id : i # j => NamesDiffer(i, j))
  /\ [][\A i \in DOMAIN id :
          i # NextSlot => /\ i \in DOMAIN id'
                          /\ id'[i] = id[i]
                          /\ func_name'[i] = func_name[i]]_vars

\* the instances with ids 999 and 1000, where the digit count of the id
\* changes, are alive together
Witness_C11 ==
  \E i, j \in DOMAIN id : id[i] = 999 /\ id[j] = 1000

(***************************************************************************)
(* C12: what one emit call does to the code buffer                         *)
(***************************************************************************)
\* the line the k-th emit call of the modelled callers formats (k from 0)
ExpectedLine(k) ==
  <<" ", "/", "/", "d", "e", "b", "u", "g">>
    \o << <<"0", "1", "2", "3", "4", "5", "6", "7", "8", "9">>[k + 1] >>
    \o <<";">>

\* this step is an emit call: the call history grew by one
EmitStep == Len(emitted') = Len(emitted) + 1

\* the text of region r in the buffer of instance 1, empty without an entry
EntryOf(cs, r) == IF r \in DOMAIN cs THEN cs[r] ELSE <<>>

\* C12: an emit call appends the formatted text and the line terminator to
\* the end of the active region's entry, creating the entry when the region
\* had none, and leaves every other region's entry and the set of other
\* entries as they were; hence each entry is the concatenation, in call
\* order, of the lines emitted while its region was active.
Thm_C12 ==
  /\ [][EmitStep =>
          LET r == current_code_region[1]
              line == ExpectedLine(Len(emitted))
          IN /\ emitted'[Len(emitted')].region = r
             /\ emitted'[Len(emitted')].text = line
             /\ r \in DOMAIN codes'[1]
             /\ codes'[1][r] = EntryOf(codes[1], r) \o line \o <<"\n">>
             /\ DOMAIN codes'[1] = DOMAIN codes[1] \cup {r}
             /\ \A q \in DOMAIN codes[1] \ {r} : codes'[1][q] = codes[1][q]
       ]_vars
  /\ [](\A r \in DOMAIN codes[1] : codes[1][r] = RegionText(emitted, r))

\* two emit calls were made with body active, and body's entry holds the two
\* lines in call order
Witness_C12 ==
  /\ Len(emitted) = 2
  /\ emitted[1].region = body /\ emitted[2].region = body
  /\ codes[1][body] = ExpectedLine(0) \o <<"\n">> \o ExpectedLine(1) \o <<"\n">>

(***************************************************************************)
(* C13: what changes the active region                                     *)
(***************************************************************************)
\* the kinds of step, told apart by the call histories
GuardStep == Len(guards') # Len(guards)
WriteStep == last_write' # last_write
LoadStep == Len(dl_calls') > Len(dl_calls)
DisasmStep == Len(objdump_calls') > Len(objdump_calls)

\* C13: a new instance has header as its active region; the active region
\* changes only in a step that creates or destroys a region guard, and an
\* emit, write_source, load_function or disassemble call leaves it as it was.
Thm_C13 ==
  /\ current_code_region[1] = header
  /\ [][/\ current_code_region' # current_code_region => GuardStep
        /\ (EmitStep \/ WriteStep \/ LoadStep \/ DisasmStep) =>
              current_code_region' = current_code_region
       ]_vars

\* with body active, text was emitted into body, the source was written
\* after that, and objdump was run
Witness_C13 ==
  /\ current_code_region[1] = body
  /\ Len(emitted) = 1 /\ emitted[1].region = body
  /\ last_write.called /\ last_write.n_emitted = 1
  /\ Len(objdump_calls) = 1

(***************************************************************************)
(* C14: which regions have a buffer entry                                  *)
(***************************************************************************)
\* the regions that were active during at least one emit call of the log
EmittedRegions(log) == { log[k].region : k \in 1..Len(log) }

\* the content has a line that is exactly the marker line of region r
HasMarkerLine(content, r) ==
  LET line == region_marker \o get_region_name(r) \o <<"\n">>
  IN \E i \in 1..Len(content) :
       /\ i = 1 \/ content[i - 1] = "\n"
       /\ i + Len(line) - 1 <= Len(content)
       /\ SubSeq(content, i, i + Len(line) - 1) = line

\* C14: the regions with a buffer entry are exactly the regions that were
\* active during at least one emit call (none before the first emit, and
\* none for a region whose guards came and went without an emit), and the
\* text a write_source call streams has a marker line for exactly the regions
\* that had an entry when it was called.
Thm_C14 ==
  /\ DOMAIN codes[1] = EmittedRegions(emitted)
  /\ (last_write.called /\ ~last_write.skipped) =>
        \A r \in CodeRegion :
          HasMarkerLine(last_write.content, r) <=> r \in EmittedRegions(EmittedAtWrite)

\* a guard for body is alive and nothing was emitted under it; one line was
\* emitted into header before; the written text has the header marker only
Witness_C14 ==
  /\ scope_region = <<body>>
  /\ Len(emitted) = 1 /\ emitted[1].region = header
  /\ last_write.called /\ ~last_write.skipped /\ last_write.n_emitted = 1
  /\ body \notin DOMAIN codes[1]
  /\ HasMarkerLine(last_write.content, header)
  /\ ~HasMarkerLine(last_write.content, body)

(***************************************************************************)
(* C15: failing external commands                                          *)
(***************************************************************************)
\* an error was raised, and by the loader: the last loader call returned the
\* null pointer
RaisedByLoader ==
  /\ dl_calls # <<>>
  /\ dl_calls[Len(dl_calls)].ret = nullptr

\* C15: a write_source call that does not take the debug return runs the
\* copy and then the formatter whatever the copy's exit status, and leaves
\* the source file written (with the streamed text itself when the formatter
\* failed); neither a write_source nor a disassemble call raises an error,
\* whatever the exit statuses, so an error raised in a run comes from the
\* loader alone.
Thm_C15 ==
  /\ []((last_write.called /\ ~last_write.skipped) =>
          /\ Len(last_write.commands) = 2
          /\ last_write.commands[1].tool = "cp"
          /\ last_write.commands[2].tool = "clang-format"
          /\ SourceFn \in DOMAIN fs
          /\ ~last_write.commands[2].ok => fs[SourceFn] = last_write.content)
  /\ [](fatal # NoError => RaisedByLoader)
  /\ [][(WriteStep \/ DisasmStep) => fatal' = NoError]_vars

\* the copy, the formatter and objdump all failed; the source file holds the
\* streamed text and no error was raised
Witness_C15 ==
  /\ last_write.called /\ ~last_write.skipped
  /\ ~last_write.commands[1].ok /\ ~last_write.commands[2].ok
  /\ last_write.content # <<>>
  /\ fs[SourceFn] = last_write.content
  /\ Len(objdump_calls) = 1 /\ ~objdump_calls[1].ok
  /\ fatal = NoError

(***************************************************************************)
(* C16: the id ceiling under concurrent construction                       *)
(***************************************************************************)
\* C16 as stated: whatever the interleaving of the constructing threads, no
\* instance holds an id of 10000 or more and the static counter never
\* exceeds 10000.
Claim_C16 ==
  /\ kernel_id <= KernelIdLimit
  /\ \A i \in DOMAIN id : id[i] < KernelIdLimit

(***************************************************************************)
(* C17: write_source does not consume the code buffer                      *)
(***************************************************************************)
\* the content has the given text as a whole line
HasLine(content, text) ==
  LET line == text \o <<"\n">>
  IN \E i \in 1..Len(content) :
       /\ i = 1 \/ content[i - 1] = "\n"
       /\ i + Len(line) - 1 <= Len(content)
       /\ SubSeq(content, i, i + Len(line) - 1) = line

\* C17: a write_source call leaves the code buffer exactly as it found it,
\* so after any write_source calls every region's entry still holds all the
\* lines emitted so far, and a write_source call that does not take the debug
\* return streams every line emitted before it, those emitted before an
\* earlier write_source call included.
Thm_C17 ==
  /\ [][WriteStep => codes' = codes /\ emitted' = emitted]_vars
  /\ [](last_write.called =>
          /\ \A r \in EmittedRegions(emitted) :
               r \in DOMAIN codes[1] /\ codes[1][r] = RegionText(emitted, r)
          /\ ~last_write.skipped =>
               \A k \in 1..last_write.n_emitted :
                 HasLine(last_write.content, ExpectedLine(k - 1)))

\* a first write_source call after one emit left its copy; a second emit and
\* a second write_source call (whose copy failed) followed: the second text
\* holds both lines, the copy of the first only the first line
Witness_C17 ==
  /\ Len(emitted) = 2
  /\ last_write.called /\ ~last_write.skipped /\ last_write.n_emitted = 2
  /\ ~last_write.commands[1].ok
  /\ unformated_fn(SourceFn) \in DOMAIN fs
  /\ HasLine(fs[unformated_fn(SourceFn)], ExpectedLine(0))
  /\ ~HasLine(fs[unformated_fn(SourceFn)], ExpectedLine(1))
  /\ HasLine(last_write.content, ExpectedLine(0))
  /\ HasLine(last_write.content, ExpectedLine(1))

(***************************************************************************)
(* C18: write_source never locks itself out                                *)
(***************************************************************************)
\* the token "debug" occurs somewhere in s
HasDebug(s) ==
  \E i \in 1..(Len(s) - 4) : SubSeq(s, i, i + 4) = <<"d", "e", "b", "u", "g">>

\* the characters of s before its first line break
FirstLineOf(s) ==
  IF \E i \in 1..Len(s) : s[i] = "\n"
    THEN SubSeq(s, 1, Min({ i \in 1..Len(s) : s[i] = "\n" }) - 1)
    ELSE s

\* s is "// region " followed by the name of a code region
IsRegionLine(s) ==
  \E r \in CodeRegion :
    s = <<"/", "/", " ", "r", "e", "g", "i", "o", "n", " ">> \o get_region_name(r)

\* C18: no region name contains "debug"; the text a write_source call
\* streams is empty or starts with a region line, and its first line, like
\* the first line of the file the call leaves behind, does not contain
\* "debug" even though emitted lines do; a write_source call is not skipped
\* when the file is missing, nor when the call before it wrote the file.
Thm_C18 ==
  /\ [](\A r \in CodeRegion : ~HasDebug(get_region_name(r)))
  /\ []((last_write.called /\ ~last_write.skipped) =>
          /\ last_write.content = <<>>
               \/ IsRegionLine(FirstLineOf(last_write.content))
          /\ ~HasDebug(FirstLineOf(last_write.content))
          /\ SourceFn \in DOMAIN fs
          /\ ~HasDebug(FirstLineOf(fs[SourceFn])))
  /\ [][WriteStep =>
          /\ SourceFn \notin DOMAIN fs => ~last_write'.skipped
          /\ (last_write.called /\ ~last_write.skipped) => ~last_write'.skipped
       ]_vars

\* a line containing "debug" was emitted, a write_source call wrote it, and
\* the next write_source call was not skipped and wrote the same text again
Witness_C18 ==
  /\ last_write.called /\ ~last_write.skipped
  /\ last_write.repeats
  /\ last_write.n_emitted >= 1
  /\ HasDebug(last_write.content)
  /\ HasDebug(fs[SourceFn])
=============================================================================
